---- MODULE Spec2Model ----
(***************************************************************************)
(* Model of chemprop's ensemble training driver:                           *)
(*   chemprop/train/run_training.py  (run_training)                        *)
(*   chemprop/train/train.py         (train)                               *)
(***************************************************************************)
EXTENDS Integers, Sequences, FiniteSets, TLC

(***************************************************************************)
(* Bounds of the model.                                                    *)
(***************************************************************************)
MaxEnsemble == 2
MaxEpochs == 2
MaxBatch == 1
MaxData == 1
MaxTest == 1
MaxTrainData == 4
MaxTrainBatch == 3
MaxStart == 1
MaxLoaded == 4
MaxTrainMols == 2
MaxTestMols == 1
FpBits == 2

(***************************************************************************)
(* Python helpers.                                                         *)
(***************************************************************************)
Min(a, b) == IF a < b THEN a ELSE b

\* Python slice s[lo:hi] for 0 <= lo, on a sequence indexed from 1.
Slice(s, lo, hi) == SubSeq(s, lo + 1, Min(hi, Len(s)))

\* The orders random.shuffle can leave n items in.
Perms(n) == {p \in [1..n -> 1..n] : \A i, j \in 1..n : p[i] = p[j] => i = j}

SelectSeqTarget(s, t) == SelectSeq(s, LAMBDA d : d.target = t)

(***************************************************************************)
(* Floating point scores: numbers, +inf, -inf and NaN.                     *)
(***************************************************************************)
NaN == [kind |-> "nan", v |-> 0]
PosInf == [kind |-> "inf", v |-> 1]
NegInf == [kind |-> "inf", v |-> -1]
Num(n) == [kind |-> "num", v |-> n]

\* Python's a < b on floats: every comparison with NaN is False.
Lt(a, b) ==
    /\ a.kind # "nan"
    /\ b.kind # "nan"
    /\ IF a.kind = "inf" THEN a.v < 0 /\ b # a
       ELSE IF b.kind = "inf" THEN b.v > 0
       ELSE a.v < b.v

\* Values np.nanmean(val_scores) can take: NaN, inf, and two finite scores.
ValScores == {NaN, PosInf, Num(1), Num(2)}

\* Values a prediction can take.
PredValues == {0, 1}

(***************************************************************************)
(* train.py: class balancing and the batch loop.                           *)
(***************************************************************************)
RECURSIVE ClassBalanceLoop(_, _, _, _, _, _)
ClassBalanceLoop(pos, neg, pos_index, neg_index, new_data, iter_size) ==
    LET pos_size == iter_size \div 2
        new_pos == Slice(pos, pos_index, pos_index + pos_size)
        new_neg == Slice(neg, neg_index, neg_index + iter_size - Len(new_pos))
        new_pos2 == IF Len(new_pos) + Len(new_neg) < iter_size
                    THEN Slice(pos, pos_index, pos_index + iter_size - Len(new_neg))
                    ELSE new_pos
    IN  IF Len(new_pos) = 0 \/ Len(new_neg) = 0
        THEN new_data
        ELSE ClassBalanceLoop(pos, neg, pos_index + Len(new_pos2),
                              neg_index + Len(new_neg),
                              new_data \o new_pos2 \o new_neg, iter_size)

ClassBalance(data, iter_size) ==
    ClassBalanceLoop(SelectSeqTarget(data, 1), SelectSeqTarget(data, 0),
                     0, 0, <<>>, iter_size)

NumIters(data, batch_size) == (Len(data) \div batch_size) * batch_size

BatchLen(mol_batch) == Len(mol_batch)

\* Every slice of the data is a batch, the short last one too.
RECURSIVE TrainLoopKeepLast(_, _, _, _)
TrainLoopKeepLast(data, batch_size, num_iters, st) ==
    IF st.i >= Len(data)
    THEN st
    ELSE LET mol_batch == Slice(data, st.i, st.i + batch_size)
         IN  TrainLoopKeepLast(data, batch_size, num_iters,
                       [i |-> st.i + batch_size,
                        n_iter |-> st.n_iter + BatchLen(mol_batch),
                        batches |-> Append(st.batches, mol_batch)])

\* The for loop of train: st = [i, n_iter, batches], batches being the
\* mol_batch values the model was run on and the optimizer stepped for.
RECURSIVE TrainLoop(_, _, _, _)
TrainLoop(data, batch_size, num_iters, st) ==
    IF st.i >= num_iters \/ st.i + batch_size > Len(data)
    THEN st
    ELSE LET mol_batch == Slice(data, st.i, st.i + batch_size)
         IN  TrainLoop(data, batch_size, num_iters,
                       [i |-> st.i + batch_size,
                        n_iter |-> st.n_iter + BatchLen(mol_batch),
                        batches |-> Append(st.batches, mol_batch)])

\* The count restarts from zero instead of from the n_iter passed in.
TrainFromZero(shuffled, a, n_iter) ==
    LET data == IF a.class_balance THEN ClassBalance(shuffled, a.batch_size)
                ELSE shuffled
        fin == TrainLoop(data, a.batch_size, NumIters(data, a.batch_size),
                         [i |-> 0, n_iter |-> 0, batches |-> <<>>])
    IN  [n_iter |-> fin.n_iter, batches |-> fin.batches, data |-> data]

\* train(model, data, ..., args, n_iter) on the already shuffled data.
Train(shuffled, a, n_iter) ==
    LET data == IF a.class_balance THEN ClassBalance(shuffled, a.batch_size)
                ELSE shuffled
        fin == TrainLoop(data, a.batch_size, NumIters(data, a.batch_size),
                         [i |-> 0, n_iter |-> n_iter, batches |-> <<>>])
    IN  [n_iter |-> fin.n_iter, batches |-> fin.batches, data |-> data]

(***************************************************************************)
(* run_training.py: the ensemble loop.                                     *)
(***************************************************************************)
VARIABLES args, train_data, disk, model_idx, pc, epoch, model, optimizer,
          scheduler, best_score, best_epoch, n_iter, hist, processed,
          last_train, sum_test_preds, all_test_preds, avg_test_preds,
          dargs, data, split, scaler, sim, x, y

\* State of the ensemble loop and of train.
loopVars == <<args, train_data, disk, model_idx, epoch, model, optimizer,
              scheduler, best_score, best_epoch, n_iter, hist, processed,
              last_train, sum_test_preds, all_test_preds, avg_test_preds>>

\* State of the data loading, splitting and scaling stage.
dataVars == <<dargs, data, split, scaler>>

\* State of the similarity confidence stage.
simVars == <<sim, x, y>>

vars == <<pc, loopVars, dataVars, simVars>>

DataIdle == dargs = <<>> /\ data = <<>> /\ split = <<>> /\ scaler = <<>>

SimIdle == sim = <<>> /\ x = <<>> /\ y = <<>>

LoopIdle ==
    /\ args = <<>> /\ train_data = <<>> /\ disk = <<>> /\ model_idx = -1
    /\ epoch = 0 /\ model = <<>> /\ optimizer = <<>> /\ scheduler = <<>>
    /\ best_score = <<>> /\ best_epoch = 0 /\ n_iter = 0 /\ hist = <<>>
    /\ processed = 0 /\ last_train = <<>> /\ sum_test_preds = <<>>
    /\ all_test_preds = <<>> /\ avg_test_preds = <<>>

\* Training sets of n examples, a binary target each.
DataSets(n) ==
    UNION {{[i \in 1..k |-> [id |-> i, target |-> tg[i]]] : tg \in [1..k -> 0..1]}
           : k \in 0..n}

Members == 0..(args.ensemble_size - 1)
TestIdx == 1..args.test_size
TaskIdx == 1..args.num_tasks

\* What save_dir/model.pt of a member can hold before the run: nothing in a
\* fresh save_dir, the checkpoint of an earlier run in a reused one.
Absent == [member |-> -1, origin |-> "absent", steps |-> 0]
Stale == [member |-> -1, origin |-> "stale", steps |-> 0]

\* build_model(args) or load_checkpoint(args.checkpoint_paths[model_idx]).
NewModel(idx) ==
    [member |-> idx,
     origin |-> IF args.checkpoint_paths THEN "loaded" ELSE "built",
     steps |-> 0]

InitBestScore == IF args.minimize_score THEN PosInf ELSE NegInf

\* The sense of minimize_score inverted.
ImprovedSwapped(avg_val_score, best) ==
    \/ args.minimize_score /\ Lt(best, avg_val_score)
    \/ ~args.minimize_score /\ Lt(avg_val_score, best)

Improved(avg_val_score, best) ==
    \/ args.minimize_score /\ Lt(avg_val_score, best)
    \/ ~args.minimize_score /\ Lt(best, avg_val_score)

\* Shared path: every member writes model_0/model.pt.
SaveCheckpointShared(d, idx, m) == [d EXCEPT ![0] = m]

\* save_checkpoint(os.path.join(save_dir, 'model.pt'), model, ...)
\* with save_dir = args.save_dir/model_{idx}.
SaveCheckpoint(d, idx, m) == [d EXCEPT ![idx] = m]

\* No save before the epoch loop.
InitialSaveSkipped(d, idx, m) == d

\* The save right after the model is built ("if 0 epochs").
InitialSave(d, idx, m) == SaveCheckpoint(d, idx, m)

\* The member's predictions replace the running sum.
AddPredsOverwrite(s, p) == p

\* sum_test_preds += np.array(test_preds), one entry.
AddPreds(s, p) == s + p

NoTrain == [n_iter |-> 0, batches |-> <<>>, data |-> <<>>]

\* The state when the ensemble loop is reached, for arguments drawn from
\* argSet and training data drawn from dataSet.
LoopInit(argSet, dataSet) ==
    /\ args \in argSet
    /\ train_data \in dataSet
    /\ \E old \in {Absent, Stale} : disk = [k \in Members |-> old]
    /\ model_idx = -1
    /\ pc = "member"
    /\ epoch = 0
    /\ model = Absent
    /\ optimizer = [member |-> -1, steps |-> 0]
    /\ scheduler = [member |-> -1, steps |-> 0]
    /\ best_score = NaN
    /\ best_epoch = 0
    /\ n_iter = 0
    /\ hist = <<>>
    /\ processed = 0
    /\ last_train = NoTrain
    /\ sum_test_preds = [i \in TestIdx |-> [t \in TaskIdx |-> 0]]
    /\ all_test_preds = [i \in TestIdx |-> [t \in TaskIdx |-> [m \in Members |-> 0]]]
    /\ avg_test_preds = <<>>
    /\ DataIdle /\ SimIdle

\* Training and checkpointing of the members; the test set is empty.
Init ==
    LoopInit([ensemble_size : 1..MaxEnsemble,
              epochs : 0..MaxEpochs,
              minimize_score : BOOLEAN,
              batch_size : 1..MaxBatch,
              class_balance : BOOLEAN,
              checkpoint_paths : BOOLEAN,
              scheduler : {"NoamLR", "ExponentialLR"},
              test_size : {0},
              num_tasks : {1}],
             DataSets(MaxData))

\* Accumulation of the members' test predictions; at most one epoch each.
EnsembleInit ==
    LoopInit([ensemble_size : 1..MaxEnsemble,
              epochs : {0, 1},
              minimize_score : {TRUE},
              batch_size : {1},
              class_balance : BOOLEAN,
              checkpoint_paths : {FALSE},
              scheduler : {"NoamLR", "ExponentialLR"},
              test_size : 0..MaxTest,
              num_tasks : {1}],
             DataSets(1))

\* Top of the for loop over model_idx up to the start of the epoch loop.
BeginMember ==
    /\ pc = "member"
    /\ model_idx + 1 < args.ensemble_size
    /\ model_idx' = model_idx + 1
    /\ model' = NewModel(model_idx')
    /\ disk' = InitialSave(disk, model_idx', model')
    /\ optimizer' = [member |-> model_idx', steps |-> 0]
    /\ scheduler' = [member |-> model_idx', steps |-> 0]
    /\ best_score' = InitBestScore
    /\ best_epoch' = 0
    /\ n_iter' = 0
    /\ epoch' = 0
    /\ hist' = <<>>
    /\ processed' = 0
    /\ last_train' = NoTrain
    /\ pc' = "epoch"
    /\ UNCHANGED <<dataVars, simVars, args, train_data, sum_test_preds, all_test_preds, avg_test_preds>>

RECURSIVE SumLen(_)
SumLen(bs) == IF bs = <<>> THEN 0 ELSE Len(Head(bs)) + SumLen(Tail(bs))

\* One pass of the epoch loop: train, validate, checkpoint on improvement.
TrainEpoch ==
    /\ pc = "epoch"
    /\ epoch < args.epochs
    /\ ~(args.class_balance /\ Len(train_data) = 0)
    /\ \E p \in Perms(Len(train_data)), avg_val_score \in ValScores :
         LET shuffled == [i \in 1..Len(train_data) |-> train_data[p[i]]]
             r == Train(shuffled, args, n_iter)
             nb == Len(r.batches)
             m == [model EXCEPT !.steps = @ + nb]
             imp == Improved(avg_val_score, best_score)
         IN  /\ train_data' = shuffled
             /\ last_train' = r
             /\ n_iter' = r.n_iter
             /\ processed' = processed + SumLen(r.batches)
             /\ model' = m
             /\ optimizer' = [optimizer EXCEPT !.steps = @ + nb]
             /\ scheduler' = [scheduler EXCEPT !.steps =
                                IF args.scheduler = "NoamLR" THEN @ + nb ELSE @ + 1]
             /\ hist' = Append(hist, [score |-> avg_val_score, model |-> m])
             /\ best_score' = IF imp THEN avg_val_score ELSE best_score
             /\ best_epoch' = IF imp THEN epoch ELSE best_epoch
             /\ disk' = IF imp THEN SaveCheckpoint(disk, model_idx, m) ELSE disk
    /\ epoch' = epoch + 1
    /\ UNCHANGED <<dataVars, simVars, args, model_idx, pc, sum_test_preds, all_test_preds, avg_test_preds>>

\* train asserts on data[0] when class_balance is set: an empty training set
\* raises and ends the run.
TrainRaises ==
    /\ pc = "epoch"
    /\ epoch < args.epochs
    /\ args.class_balance /\ Len(train_data) = 0
    /\ pc' = "raised"
    /\ UNCHANGED <<dataVars, simVars, args, train_data, disk, model_idx, epoch, model, optimizer,
                   scheduler, best_score, best_epoch, n_iter, hist, processed,
                   last_train, sum_test_preds, all_test_preds, avg_test_preds>>

\* After the epoch loop: reload model.pt, predict on the test set, accumulate.
TestMember ==
    /\ pc = "epoch"
    /\ epoch = args.epochs
    /\ model' = disk[model_idx]
    /\ \E test_preds \in [TestIdx -> [TaskIdx -> PredValues]] :
         IF args.test_size # 0
         THEN /\ sum_test_preds' = [i \in TestIdx |-> [t \in TaskIdx |->
                                      AddPreds(sum_test_preds[i][t], test_preds[i][t])]]
              /\ all_test_preds' = [i \in TestIdx |-> [t \in TaskIdx |->
                                      [all_test_preds[i][t] EXCEPT ![model_idx] = test_preds[i][t]]]]
         ELSE UNCHANGED <<sum_test_preds, all_test_preds>>
    /\ pc' = "member"
    /\ UNCHANGED <<dataVars, simVars, args, train_data, disk, model_idx, epoch, optimizer, scheduler,
                   best_score, best_epoch, n_iter, hist, processed, last_train,
                   avg_test_preds>>

\* avg_test_preds = sum_test_preds / args.ensemble_size, as exact fractions.
EvaluateEnsemble ==
    /\ pc = "member"
    /\ model_idx + 1 = args.ensemble_size
    /\ avg_test_preds' = [i \in TestIdx |-> [t \in TaskIdx |->
                            [num |-> sum_test_preds[i][t], den |-> args.ensemble_size]]]
    /\ pc' = "done"
    /\ UNCHANGED <<dataVars, simVars, args, train_data, disk, model_idx, epoch, model, optimizer,
                   scheduler, best_score, best_epoch, n_iter, hist, processed,
                   last_train, sum_test_preds, all_test_preds>>

Next == BeginMember \/ TrainEpoch \/ TrainRaises \/ TestMember \/ EvaluateEnsemble

Spec == Init /\ [][Next]_vars

SpecEnsemble == EnsembleInit /\ [][Next]_vars


(***************************************************************************)
(* train on its own: one call on every small data set and batch size.      *)
(***************************************************************************)
TrainInit ==
    /\ args \in [ensemble_size : {1},
                 epochs : {1},
                 minimize_score : {FALSE},
                 batch_size : 1..MaxTrainBatch,
                 class_balance : BOOLEAN,
                 checkpoint_paths : {FALSE},
                 scheduler : {"NoamLR"},
                 test_size : {0},
                 num_tasks : {1}]
    /\ train_data \in DataSets(MaxTrainData)
    /\ n_iter \in 0..MaxStart
    /\ processed = 0
    /\ pc = "train"
    /\ disk = [k \in Members |-> Absent]
    /\ model_idx = 0
    /\ epoch = 0
    /\ model = NewModel(0)
    /\ optimizer = [member |-> 0, steps |-> 0]
    /\ scheduler = [member |-> 0, steps |-> 0]
    /\ best_score = NaN
    /\ best_epoch = 0
    /\ hist = <<>>
    /\ last_train = NoTrain
    /\ sum_test_preds = <<>>
    /\ all_test_preds = <<>>
    /\ avg_test_preds = <<>>
    /\ DataIdle /\ SimIdle

\* A call train(model, data, loss_func, optimizer, scheduler, args, n_iter).
TrainCall ==
    /\ pc = "train"
    /\ ~(args.class_balance /\ Len(train_data) = 0)
    /\ \E p \in Perms(Len(train_data)) :
         LET shuffled == [i \in 1..Len(train_data) |-> train_data[p[i]]]
             r == Train(shuffled, args, n_iter)
             nb == Len(r.batches)
         IN  /\ train_data' = shuffled
             /\ last_train' = r
             /\ n_iter' = r.n_iter
             /\ processed' = processed + SumLen(r.batches)
             /\ model' = [model EXCEPT !.steps = @ + nb]
             /\ optimizer' = [optimizer EXCEPT !.steps = @ + nb]
             /\ scheduler' = [scheduler EXCEPT !.steps = @ + nb]
    /\ pc' = "trained"
    /\ UNCHANGED <<dataVars, simVars, args, disk, model_idx, epoch, best_score, best_epoch, hist,
                   sum_test_preds, all_test_preds, avg_test_preds>>

TrainCallRaises ==
    /\ pc = "train"
    /\ args.class_balance /\ Len(train_data) = 0
    /\ pc' = "raised"
    /\ UNCHANGED <<dataVars, simVars, args, train_data, disk, model_idx, epoch, model, optimizer,
                   scheduler, best_score, best_epoch, n_iter, hist, processed,
                   last_train, sum_test_preds, all_test_preds, avg_test_preds>>

TrainNext == TrainCall \/ TrainCallRaises

SpecTrain == TrainInit /\ [][TrainNext]_vars

(***************************************************************************)
(* Properties of the ensemble loop and of train.                           *)
(***************************************************************************)
\* The member model_idx has been reloaded from model.pt and tested.
MemberTested == pc = "member" /\ model_idx >= 0

\* a is a strictly better validation score than b.
Better(a, b) == IF args.minimize_score THEN Lt(a, b) ELSE Lt(b, a)

\* Epochs (1-based positions of hist) whose score beats the initial best_score.
Improving == {e \in 1..Len(hist) : Better(hist[e].score, InitBestScore)}

\* The earliest epoch attaining the best score among the improving ones.
FirstBest ==
    CHOOSE e \in Improving :
        /\ \A f \in Improving : ~Better(hist[f].score, hist[e].score)
        /\ \A f \in Improving : f < e => Better(hist[e].score, hist[f].score)

\* C1 as stated: once at least one epoch has run, the model reloaded for the
\* test evaluation is the model as it was at the end of an epoch whose
\* validation score no other epoch beats, and best_epoch/best_score are that
\* epoch and its score.
C1_BestEpochReloaded ==
    (MemberTested /\ args.epochs >= 1) =>
        \E e \in 1..Len(hist) :
            /\ \A f \in 1..Len(hist) : ~Better(hist[f].score, hist[e].score)
            /\ model = hist[e].model
            /\ best_epoch = e - 1
            /\ best_score = hist[e].score

\* C1 amended: if some epoch's score strictly beats the initial best_score
\* (NaN never does), the reloaded model is the model at the end of the earliest
\* epoch attaining the best such score and best_epoch/best_score are that epoch
\* and score; otherwise the reloaded model is the initial model saved before
\* training, best_epoch is 0 and best_score is the initial +/-inf.
C1_BestImprovingEpochReloaded ==
    MemberTested =>
        IF Improving = {}
        THEN /\ model = NewModel(model_idx)
             /\ best_epoch = 0
             /\ best_score = InitBestScore
        ELSE /\ model = hist[FirstBest].model
             /\ best_epoch = FirstBest - 1
             /\ best_score = hist[FirstBest].score

\* The first of two epochs is the best one and a later, trained state is dropped.
C1_Witness ==
    /\ MemberTested
    /\ Len(hist) = 2
    /\ best_epoch = 0
    /\ hist[2].score.kind = "num"
    /\ hist[2].model # model
    /\ model.steps > 0

\* C2: whenever the epoch loop is running or the reload is due, model.pt of
\* the current member holds a checkpoint saved in this member's iteration, and
\* when no epoch improved on the initial best_score the reloaded model is the
\* freshly built or loaded model, without any training step of this run.
C2_LoadPrecededBySave ==
    /\ pc = "epoch" => disk[model_idx].member = model_idx
    /\ (MemberTested /\ Improving = {}) =>
            /\ model.member = model_idx
            /\ model.origin = (IF args.checkpoint_paths THEN "loaded" ELSE "built")
            /\ model.steps = 0

\* Epochs trained the model, none improved, the untrained model is reloaded.
C2_Witness ==
    /\ MemberTested
    /\ Len(hist) >= 1
    /\ Improving = {}
    /\ hist[1].model.steps > 0
    /\ model.steps = 0
    /\ model_idx = 1

\* Number of members whose test predictions have been accumulated.
Completed == IF pc \in {"member", "done"} THEN model_idx + 1 ELSE model_idx

RECURSIVE SumMembers(_, _)
SumMembers(f, k) == IF k <= 0 THEN 0 ELSE f[k - 1] + SumMembers(f, k - 1)

\* C3: after k completed members sum_test_preds[i][t] is the sum over m < k of
\* all_test_preds[i][t][m], and the predictions of the ensemble evaluation are
\* that sum over all members divided by ensemble_size.
C3_EnsembleMean ==
    /\ pc \in {"member", "epoch", "done"} =>
         \A i \in TestIdx, t \in TaskIdx :
            sum_test_preds[i][t] = SumMembers(all_test_preds[i][t], Completed)
    /\ pc = "done" =>
         \A i \in TestIdx, t \in TaskIdx :
            /\ avg_test_preds[i][t].den = args.ensemble_size
            /\ avg_test_preds[i][t].num =
                  SumMembers(all_test_preds[i][t], args.ensemble_size)

C3_Witness ==
    /\ pc = "done"
    /\ args.ensemble_size = 2
    /\ args.test_size >= 1
    /\ all_test_preds[1][1][0] = 1
    /\ all_test_preds[1][1][1] = 1
    /\ avg_test_preds[1][1].num = 2

C5_FullBatchesOnly ==
    pc = "trained" =>
        LET b == args.batch_size
            used == last_train.data
            batches == last_train.batches
        IN  /\ Len(batches) = Len(used) \div b
            /\ \A k \in 1..Len(batches) :
                  /\ Len(batches[k]) = b
                  /\ \A j \in 1..b : batches[k][j] = used[(k - 1) * b + j]
            /\ optimizer.steps = Len(batches)
            /\ ~args.class_balance => used = train_data

\* Three examples, batch size two: one batch, one example skipped.
C5_Witness ==
    /\ pc = "trained"
    /\ args.batch_size = 2
    /\ Len(last_train.data) = 3
    /\ Len(last_train.batches) = 1

\* C7: a member starts only once the previous one has run all its epochs and
\* been reloaded and tested; best_score, best_epoch, n_iter, optimizer and
\* scheduler are fresh at that point; and model.pt of member k changes only
\* while k is the current member.
C7_MembersSequentialIsolated ==
    [][ /\ model_idx' # model_idx =>
            /\ model_idx' = model_idx + 1
            /\ pc = "member"
            /\ model_idx >= 0 => (epoch = args.epochs /\ model = disk[model_idx])
            /\ best_score' = InitBestScore
            /\ best_epoch' = 0
            /\ n_iter' = 0
            /\ optimizer' = [member |-> model_idx', steps |-> 0]
            /\ scheduler' = [member |-> model_idx', steps |-> 0]
        /\ \A k \in Members : disk'[k] # disk[k] => model_idx' = k
      ]_vars

\* The second member checkpoints an improved epoch after the first trained.
C7_Witness ==
    /\ pc = "epoch"
    /\ model_idx = 1
    /\ epoch >= 1
    /\ disk[0].steps > 0
    /\ disk[1].steps > 0
    /\ n_iter < 2 * disk[0].steps + 2 * disk[1].steps

(***************************************************************************)
(* run_training.py: loading, splitting and target scaling.                 *)
(***************************************************************************)
\* A target as read from the csv file.
Raw(n) == [scaled |-> FALSE, v |-> n, fit |-> <<>>]

\* get_data(path): n examples with ids from + 1 .. from + n.
GetData(from, n) == [i \in 1..n |-> [id |-> from + i, targets |-> Raw(from + i)]]

Unbound == [bound |-> FALSE, items |-> <<>>]
Bound(items) == [bound |-> TRUE, items |-> items]

\* split_data(data, split_type='random', sizes, seed): shuffle, then cut at
\* int(sizes[0] * n) and int((sizes[0] + sizes[1]) * n); sizes in tenths.
SplitData(d, sizes, p) ==
    LET n == Len(d)
        sh == [i \in 1..n |-> d[p[i]]]
        train_size == (sizes[1] * n) \div 10
        train_val_size == ((sizes[1] + sizes[2]) * n) \div 10
    IN  <<Slice(sh, 0, train_size),
          Slice(sh, train_size, train_val_size),
          Slice(sh, train_val_size, n)>>

\* sizes passed to split_data when only one of val and test has its own file.
SeparateSizes == <<8, 2, 0>>

DataInit ==
    /\ dargs \in [separate_val_path : BOOLEAN,
                  separate_test_path : BOOLEAN,
                  dataset_type : {"regression", "classification"},
                  split_sizes : {<<8, 1, 1>>, <<6, 2, 2>>}]
    /\ \E n \in 0..MaxLoaded : data = GetData(0, n)
    /\ split = [train_data |-> Unbound, val_data |-> Unbound, test_data |-> Unbound]
    /\ scaler = [fitted |-> FALSE, fit |-> <<>>]
    /\ pc = "load"
    /\ LoopIdle /\ SimIdle

\* "Split data": the separate files are read, the loaded data is split.
SplitStep ==
    /\ pc = "load"
    /\ \E p \in Perms(Len(data)) :
         LET test0 == IF dargs.separate_test_path
                      THEN Bound(GetData(200, 1)) ELSE split.test_data
             val0 == IF dargs.separate_val_path
                     THEN Bound(GetData(100, 1)) ELSE split.val_data
             sep == SplitData(data, SeparateSizes, p)
             own == SplitData(data, dargs.split_sizes, p)
         IN  split' =
               IF dargs.separate_val_path /\ dargs.separate_test_path
               THEN [train_data |-> Bound(data), val_data |-> val0, test_data |-> test0]
               ELSE IF dargs.separate_val_path
               THEN [train_data |-> Bound(sep[1]), val_data |-> val0,
                     test_data |-> Bound(sep[3])]
               ELSE IF dargs.separate_test_path
               THEN [train_data |-> Bound(sep[1]), val_data |-> Bound(sep[2]),
                     test_data |-> test0]
               ELSE [train_data |-> Bound(own[1]), val_data |-> Bound(own[2]),
                     test_data |-> Bound(own[3])]
    /\ pc' = "split"
    /\ UNCHANGED <<loopVars, simVars, dargs, data, scaler>>

\* StandardScaler().fit(train_targets).
Fit(train_targets) == [fitted |-> TRUE, fit |-> train_targets]

\* scaler.transform of one target.
Transform(sc, t) == [scaled |-> TRUE, v |-> t.v, fit |-> sc.fit]

Targets(items) == [i \in 1..Len(items) |-> items[i].targets]

\* Targets are scaled whatever the dataset type.
ScalesTargetsAlways(dataset_type) == TRUE

ScalesTargets(dataset_type) == dataset_type = "regression"

\* "Initialize scaler and scale training targets".
ScaleStep ==
    /\ pc = "split"
    /\ split.train_data.bound /\ split.val_data.bound /\ split.test_data.bound
    /\ IF ScalesTargets(dargs.dataset_type)
       THEN LET train_targets == Targets(split.train_data.items)
                sc == Fit(train_targets)
            IN  /\ scaler' = sc
                /\ split' = [split EXCEPT !.train_data.items =
                               [i \in 1..Len(@) |->
                                  [@[i] EXCEPT !.targets = Transform(sc, @)]]]
       ELSE /\ scaler' = [fitted |-> FALSE, fit |-> <<>>]
            /\ UNCHANGED split
    /\ pc' = "scaled"
    /\ UNCHANGED <<loopVars, simVars, dargs, data>>

DataNext == SplitStep \/ ScaleStep

SpecData == DataInit /\ [][DataNext]_vars

Ids(items) == {items[i].id : i \in 1..Len(items)}

AllRaw(items) == \A i \in 1..Len(items) : items[i].targets = Raw(items[i].id)

\* C6: for regression the scaler is fitted on the training split's targets
\* and only the training split's targets become scaled values; validation and
\* test targets stay as loaded; for other dataset types there is no scaler and
\* no target changes.
C6_ScalesTrainTargetsOnly ==
    pc = "scaled" =>
        LET tr == split.train_data.items
        IN  /\ AllRaw(split.val_data.items)
            /\ AllRaw(split.test_data.items)
            /\ IF dargs.dataset_type = "regression"
               THEN /\ scaler.fitted
                    /\ scaler.fit = [i \in 1..Len(tr) |-> Raw(tr[i].id)]
                    /\ \A i \in 1..Len(tr) :
                          tr[i].targets = Transform(scaler, Raw(tr[i].id))
               ELSE /\ ~scaler.fitted
                    /\ AllRaw(tr)

C6_Witness ==
    /\ pc = "scaled"
    /\ dargs.dataset_type = "regression"
    /\ Len(split.train_data.items) >= 2
    /\ Len(split.val_data.items) >= 1
    /\ Len(split.test_data.items) >= 1
    /\ split.train_data.items[1].targets.scaled

\* C9: in each of the four combinations all three sets are assigned and no
\* loaded example is lost: both files given, everything trains; only a test
\* file, train and val share the loaded data; only a validation file, train
\* and test share the loaded data, test being the part that is not train.
C9_SplitKeepsAllData ==
    pc \in {"split", "scaled"} =>
        LET tr == Ids(split.train_data.items)
            va == Ids(split.val_data.items)
            te == Ids(split.test_data.items)
            all == Ids(data)
        IN  /\ split.train_data.bound /\ split.val_data.bound /\ split.test_data.bound
            /\ IF dargs.separate_val_path /\ dargs.separate_test_path
               THEN tr = all
               ELSE IF dargs.separate_test_path
               THEN tr \cup va = all
               ELSE IF dargs.separate_val_path
               THEN tr \cup te = all /\ te = all \ tr
               ELSE tr \cup va \cup te = all

(***************************************************************************)
(* run_training.py: the tanimoto confidence.                               *)
(***************************************************************************)
\* Morgan fingerprints of molecules with at least one atom: bit vectors with
\* at least one bit set.
Fingerprints == {f \in [1..FpBits -> 0..1] : \E k \in 1..FpBits : f[k] = 1}

SeqsUpTo(S, n) == UNION {[1..k -> S] : k \in 0..n}

RECURSIVE DotUpTo(_, _, _)
DotUpTo(a, b, k) == IF k = 0 THEN 0 ELSE a[k] * b[k] + DotUpTo(a, b, k - 1)

\* np.dot(fp, sfp)
Dot(a, b) == DotUpTo(a, b, FpBits)

\* fp.sum()
FpSum(a) == Dot(a, [k \in 1..FpBits |-> 1])

\* The union is taken as |A| + |B|, the intersection not subtracted.
TsimNoIntersection(fp, sfp) == [num |-> Dot(fp, sfp), den |-> FpSum(fp) + FpSum(sfp)]

\* np.dot(fp, sfp) / (fp.sum() + sfp.sum() - np.dot(fp, sfp)), as a fraction.
Tsim(fp, sfp) ==
    [num |-> Dot(fp, sfp), den |-> FpSum(fp) + FpSum(sfp) - Dot(fp, sfp)]

\* a < b on fractions with positive denominators.
FracLt(a, b) == a.num * b.den < b.num * a.den

\* max(morgan_sim, key=lambda x: x[0]): the first entry no later one exceeds.
RECURSIVE MaxByKey(_, _, _)
MaxByKey(s, k, best) ==
    IF k > Len(s) THEN best
    ELSE MaxByKey(s, k + 1, IF FracLt(best.tsim, s[k].tsim) THEN s[k] ELSE best)

Abs(n) == IF n < 0 THEN -n ELSE n

MorganSim(i) ==
    [j \in 1..Len(sim.train_fps) |->
        [tsim |-> Tsim(sim.test_fps[i], sim.train_fps[j]),
         error |-> Abs(sim.avg_test_preds[i] - sim.test_targets[i])]]

SimInit ==
    /\ \E tr \in SeqsUpTo(Fingerprints, MaxTrainMols),
          te \in SeqsUpTo(Fingerprints, MaxTestMols) :
         \E pr \in [1..Len(te) -> PredValues], tg \in [1..Len(te) -> 0..1] :
            sim = [train_fps |-> tr, test_fps |-> te,
                   avg_test_preds |-> pr, test_targets |-> tg]
    /\ x = <<>>
    /\ y = <<>>
    /\ pc = "confidence"
    /\ LoopIdle /\ DataIdle

\* The branch args.confidence == 'tanimoto'.
Tanimoto ==
    /\ pc = "confidence"
    /\ Len(sim.test_fps) = 0 \/ Len(sim.train_fps) > 0
    /\ LET best == [i \in 1..Len(sim.test_fps) |->
                      MaxByKey(MorganSim(i), 2, MorganSim(i)[1])]
       IN  /\ x' = [i \in 1..Len(sim.test_fps) |->
                      [num |-> best[i].tsim.num * 10, den |-> best[i].tsim.den]]
           /\ y' = [i \in 1..Len(sim.test_fps) |-> best[i].error]
    /\ pc' = "visualize"
    /\ UNCHANGED <<loopVars, dataVars, sim>>

\* max() of an empty morgan_sim raises ValueError.
TanimotoRaises ==
    /\ pc = "confidence"
    /\ Len(sim.test_fps) > 0 /\ Len(sim.train_fps) = 0
    /\ pc' = "raised"
    /\ UNCHANGED <<loopVars, dataVars, simVars>>

SimNext == Tanimoto \/ TanimotoRaises

SpecSim == SimInit /\ [][SimNext]_vars

\* Bits set in a fingerprint.
Bits(f) == {k \in 1..FpBits : f[k] = 1}

\* |A and B| and |A| + |B| - |A and B| for test molecule i, training molecule j.
Common(i, j) == Cardinality(Bits(sim.test_fps[i]) \cap Bits(sim.train_fps[j]))
Either(i, j) ==
    Cardinality(Bits(sim.test_fps[i])) + Cardinality(Bits(sim.train_fps[j])) - Common(i, j)

====
